---- MODULE Spec2Model ----
(***************************************************************************)
(* The SPROUT passive learner for deterministic omega-automata             *)
(* (automata-learning/src/passive/sprout.rs) together with the part of the *)
(* mutable transition system it drives.                                    *)
(*                                                                         *)
(* Symbols are natural numbers standing for characters in their byte       *)
(* order: 1 = 'a', 2 = 'b', 3 = 'c'.  A String is a sequence of symbols.   *)
(* An ultimately periodic word is a record [spoke, cycle].  A state index  *)
(* is a natural number, the initial state is 0.  An edge is a triple       *)
(* <<source, symbol, target>>; its colour is Void during the search.       *)
(***************************************************************************)
EXTENDS Integers, Sequences, FiniteSets, TLC

\* ---------------------------------------------------------------- bounds
MaxSampleSize == 5
MaxSortLen == 2
MaxSortWords == 2

\* transition systems handed to remove_transitions: states and edges
MaxShrinkStates == 2

MaxShrinkEdges == 2

\* ------------------------------------------------------------- constants
AlphabetSize == 2
SortAlphabetSize == 2

Sigma == 1..AlphabetSize
SortSigma == 1..SortAlphabetSize

Buchi == "BuchiCondition"
Parity == "MinEvenParityCondition"
AccTypes == {Buchi, Parity}

\* ------------------------------------------------------ words and samples
StringsUpTo(S, n) == UNION {[1..k -> S] : k \in 0..n}

Last(s) == s[Len(s)]

\* position k (1-based) of the infinite expansion spoke . cycle^omega
SymbolAt(w, k) ==
    IF k <= Len(w.spoke) THEN w.spoke[k]
    ELSE w.cycle[((k - Len(w.spoke) - 1) % Len(w.cycle)) + 1]

\* the finite prefix of length n of the infinite expansion
Expand(w, n) == [k \in 1..n |-> SymbolAt(w, k)]

\* a cycle that is a proper power of a shorter string is not reduced
IsPrimitive(c) ==
    \A d \in 1..(Len(c) - 1) :
        ~(Len(c) % d = 0 /\ \A k \in 1..Len(c) : c[k] = c[((k - 1) % d) + 1])

IsReduced(w) ==
    /\ IsPrimitive(w.cycle)
    /\ (w.spoke # <<>> => Last(w.spoke) # Last(w.cycle))

\* the number of symbols that represent w
Size(w) == Len(w.spoke) + Len(w.cycle)

ReducedWords ==
    {w \in [spoke : StringsUpTo(Sigma, MaxSampleSize - 1),
            cycle : StringsUpTo(Sigma, MaxSampleSize) \ {<<>>}] :
         Size(w) <= MaxSampleSize /\ IsReduced(w)}

\* a number that tells the words apart, to enumerate every set of words once
RECURSIVE Code(_, _, _)
Code(s, i, acc) ==
    IF i > Len(s) THEN acc ELSE Code(s, i + 1, acc * (AlphabetSize + 1) + s[i])

WordCode(w) == Code(w.spoke \o <<0>> \o w.cycle, 1, 1)

CodedWords == {<<WordCode(w), Size(w), w>> : w \in ReducedWords}

\* L holds triples <<set of words, greatest code in it, total size>>
ExtendWordSets(L) ==
    UNION {{<<p[1] \cup {c[3]}, c[1], p[3] + c[2]>> :
                c \in {d \in CodedWords :
                           d[1] > p[2] /\ p[3] + d[2] <= MaxSampleSize}} : p \in L}

RECURSIVE WordSets(_, _)
WordSets(L, k) ==
    IF k = 0 \/ L = {} THEN {} ELSE L \cup WordSets(ExtendWordSets(L), k - 1)

upw(spoke, cycle) == [spoke |-> spoke, cycle |-> cycle]

new_omega_from_pos_neg(pos, neg) == [pos |-> pos, neg |-> neg]

\* every labelling of every set of reduced words of total size at most
\* MaxSampleSize
BoundedSamples ==
    UNION {{new_omega_from_pos_neg(P, W \ P) : P \in SUBSET W} :
               W \in {p[1] : p \in WordSets({<<{}, 0, 0>>}, MaxSampleSize + 1)}}

\* the samples of the unit tests
SampleBuchi ==
    new_omega_from_pos_neg({upw(<<>>, <<1>>), upw(<<1>>, <<2>>)},
                           {upw(<<>>, <<2>>)})

SampleBuchiThresh ==
    new_omega_from_pos_neg({upw(<<>>, <<1>>), upw(<<>>, <<2, 1, 1>>)},
                           {upw(<<>>, <<1, 2>>), upw(<<>>, <<2, 1>>),
                            upw(<<>>, <<2, 1, 2, 1, 1>>),
                            upw(<<>>, <<2, 1, 1, 2, 1>>)})

SampleParity ==
    new_omega_from_pos_neg({upw(<<>>, <<1>>), upw(<<>>, <<1, 1, 2>>)},
                           {upw(<<>>, <<2>>), upw(<<>>, <<1, 2, 2>>)})

SampleParityThresh ==
    new_omega_from_pos_neg({upw(<<>>, <<1>>), upw(<<>>, <<2, 1, 1, 1>>)},
                           {upw(<<>>, <<2, 1>>), upw(<<>>, <<2, 1, 1>>)})

TestCases ==
    {<<SampleBuchi, Buchi>>, <<SampleBuchiThresh, Buchi>>,
     <<SampleParity, Parity>>, <<SampleParityThresh, Parity>>}

words(s) == s.pos \cup s.neg

\* ------------------------------------------------------ transition system
new_with_initial_color == [size |-> 1, edges |-> {}]

state_indices(t) == 0..(t.size - 1)

Targets(t, q, c) == {e[3] : e \in {x \in t.edges : x[1] = q /\ x[2] = c}}

HasEdge(t, q, c) == Targets(t, q, c) # {}

Successor(t, q, c) == CHOOSE p \in Targets(t, q, c) : TRUE

add_state(t) == [t EXCEPT !.size = t.size + 1]

add_edge(t, e) == [t EXCEPT !.edges = t.edges \cup {e}]

mutablets_remove_transitions(t, source, symbol) ==
    {e \in t.edges : e[1] = source /\ e[2] = symbol}

\* Shrinkable::remove_transitions: None only when source is no state index
remove_transitions(t, source, symbol) ==
    IF source \notin state_indices(t)
    THEN [ts |-> t, ret |-> "None", removed |-> {}]
    ELSE [ts |-> [t EXCEPT !.edges =
                        t.edges \ mutablets_remove_transitions(t, source, symbol)],
          ret |-> "Some",
          removed |-> mutablets_remove_transitions(t, source, symbol)]

remove_edges_from_matching(t, source, symbol) ==
    remove_transitions(t, source, symbol).ts

is_deterministic(t) ==
    \A q \in state_indices(t) : \A c \in Sigma : Cardinality(Targets(t, q, c)) <= 1

\* ------------------------------------------------------------------- runs
\* follows u from state q; stops at the first symbol without an edge.
\* len is the number of symbols consumed successfully.
RECURSIVE FiniteRunFrom(_, _, _, _)
FiniteRunFrom(t, q, u, i) ==
    IF i > Len(u) THEN [ok |-> TRUE, reached |-> q, len |-> Len(u)]
    ELSE IF ~HasEdge(t, q, u[i]) THEN [ok |-> FALSE, reached |-> q, len |-> i - 1]
    ELSE FiniteRunFrom(t, Successor(t, q, u[i]), u, i + 1)

finite_run(t, u) == FiniteRunFrom(t, 0, u, 1)

\* runs the cycle of w from state q at cycle position i; trace is the list of
\* configurations [q, i, e] already left through edge e.  The run succeeds as
\* soon as a configuration repeats; the edges taken since its first
\* occurrence are the recurrent ones.
RECURSIVE CycleRun(_, _, _, _, _)
CycleRun(t, w, q, i, trace) ==
    LET seen == {k \in 1..Len(trace) : trace[k].q = q /\ trace[k].i = i}
        c == w.cycle[i]
    IN  IF seen # {}
        THEN LET first == CHOOSE k \in seen : \A j \in seen : k <= j
             IN  [ok |-> TRUE, reached |-> q,
                  len |-> Len(w.spoke) + Len(trace),
                  recurrent |-> {trace[k].e : k \in first..Len(trace)}]
        ELSE IF ~HasEdge(t, q, c)
        THEN [ok |-> FALSE, reached |-> q,
              len |-> Len(w.spoke) + Len(trace), recurrent |-> {}]
        ELSE LET p == Successor(t, q, c)
             IN  CycleRun(t, w, p, (i % Len(w.cycle)) + 1,
                          Append(trace, [q |-> q, i |-> i, e |-> <<q, c, p>>]))

omega_run(t, w) ==
    LET fr == finite_run(t, w.spoke)
    IN  IF ~fr.ok
        THEN [ok |-> FALSE, reached |-> fr.reached, len |-> fr.len, recurrent |-> {}]
        ELSE CycleRun(t, w, fr.reached, 1, <<>>)

\* the minimal undefined prefix of an escaping word
EscapePrefixOf(t, w) == Expand(w, omega_run(t, w).len + 1)

\* escape_prefixes over a list of words, in the order of the list
escape_prefixes(t, ws) ==
    LET esc == SelectSeq(ws, LAMBDA w : ~omega_run(t, w).ok)
    IN  [k \in 1..Len(esc) |-> EscapePrefixOf(t, esc[k])]

\* all enumeration orders of a set of words
Orders(S) ==
    {f \in [1..Cardinality(S) -> S] : \A x \in S : \E k \in 1..Cardinality(S) : f[k] = x}

Range(f) == {f[k] : k \in DOMAIN f}

Max(a, b) == IF a >= b THEN a ELSE b

SetMax(S) == IF S = {} THEN 0 ELSE CHOOSE m \in S : \A x \in S : x <= m

\* ------------------------------------------- length_lexicographical_sort
\* std::cmp::Ordering of String::cmp, symbol by symbol from position i
RECURSIVE CmpFrom(_, _, _)
CmpFrom(x, y, i) ==
    IF i > Len(x) /\ i > Len(y) THEN "Equal"
    ELSE IF i > Len(x) THEN "Less"
    ELSE IF i > Len(y) THEN "Greater"
    ELSE IF x[i] < y[i] THEN "Less"
    ELSE IF x[i] > y[i] THEN "Greater"
    ELSE CmpFrom(x, y, i + 1)

cmp(x, y) == CmpFrom(x, y, 1)

\* the closure handed to sort_by
length_comparison(x, y) ==
    IF Len(x) < Len(y) THEN "Less"
    ELSE IF Len(x) > Len(y) THEN "Greater"
    ELSE "Equal"

\* the comparison by length forgotten
compare_lexicographic(x, y) == cmp(x, y)

compare(x, y) ==
    IF length_comparison(x, y) = "Equal" THEN cmp(x, y) ELSE length_comparison(x, y)

\* sort_by is a stable sort: x goes behind every element that is not greater
InsertSorted(sorted, x) ==
    LET before == {k \in 1..Len(sorted) : compare(sorted[k], x) # "Greater"}
        n == SetMax(before)
    IN  SubSeq(sorted, 1, n) \o <<x>> \o SubSeq(sorted, n + 1, Len(sorted))

\* no sorting at all
unsorted(ws) == ws

RECURSIVE SortFrom(_, _, _)
SortFrom(ws, i, sorted) ==
    IF i > Len(ws) THEN sorted
    ELSE SortFrom(ws, i + 1, InsertSorted(sorted, ws[i]))

length_lexicographical_sort(ws) == SortFrom(ws, 1, <<>>)

\* -------------------------------------------------- consistency oracle
\* the recurrent edge sets of the words of ws whose omega run succeeds
successful_runs(t, ws) ==
    {omega_run(t, w).recurrent : w \in {x \in ws : omega_run(t, x).ok}}

\* the infinite words that remain after k1 symbols of w1 and k2 symbols of w2
\* are equal
SameSuffix(w1, k1, w2, k2) ==
    \A j \in 1..(Max(Len(w1.spoke), Len(w2.spoke)) + Len(w1.cycle) + Len(w2.cycle)) :
        SymbolAt(w1, k1 + j) = SymbolAt(w2, k2 + j)

\* a positive and a negative word leave the graph in the same state with the
\* same remaining suffix
prefix_consistency_conflict(t, s) ==
    \E p \in s.pos : \E n \in s.neg :
        LET rp == omega_run(t, p)
            rn == omega_run(t, n)
        IN  /\ ~rp.ok
            /\ ~rn.ok
            /\ rp.reached = rn.reached
            /\ SameSuffix(p, rp.len, n, rn.len)

\* Greedy min-even colouring of the edges E with the colours col..last such
\* that every set of P gets an even and every set of N an odd least colour.
\* An even colour goes to the edges outside every remaining negative set, an
\* odd colour to the edges outside every remaining positive set.
RECURSIVE Peel(_, _, _, _, _, _, _)
Peel(P, N, E, col, last, stuck, colouring) ==
    LET even == (col % 2 = 0)
        X == IF even THEN E \ UNION N ELSE E \ UNION P
        P2 == IF even THEN {p \in P : p \cap X = {}} ELSE P
        N2 == IF even THEN N ELSE {n \in N : n \cap X = {}}
        paint(F) == colouring \cup {<<e, col>> : e \in F}
    IN  IF P = {} /\ N = {} THEN [ok |-> TRUE, colour |-> paint(E)]
        ELSE IF col = last
        THEN [ok |-> IF even THEN N = {} ELSE P = {}, colour |-> paint(E)]
        ELSE IF X = {} /\ stuck THEN [ok |-> FALSE, colour |-> paint(E)]
        ELSE Peel(P2, N2, E \ X, col + 1, last, X = {}, paint(X))

\* Buechi has the colours 0 (true) and 1 (false); parity as many as needed
LastColour(acc_type, t) ==
    IF acc_type = Buchi THEN 1 ELSE Cardinality(t.edges) + 2

Colouring(acc_type, t, P, N) ==
    Peel(P, N, t.edges, 0, LastColour(acc_type, t), FALSE, {})

\* ConsistencyCheck::consistent.  The vectors pos_sets and neg_sets are only
\* ever read as collections of infinity sets, so they are kept as sets.
consistent(acc_type, t, s, pos_sets, neg_sets) ==
    LET pos_sets_new == pos_sets \cup successful_runs(t, s.pos)
        neg_sets_new == neg_sets \cup successful_runs(t, s.neg)
    IN  [is_consistent |->
             /\ ~prefix_consistency_conflict(t, s)
             /\ Colouring(acc_type, t, pos_sets_new, neg_sets_new).ok,
         pos_sets_new |-> pos_sets_new,
         neg_sets_new |-> neg_sets_new]

\* the graph completed with a rejecting sink
complete_with_colors(t) ==
    LET missing == {<<q, c>> \in state_indices(t) \X Sigma : ~HasEdge(t, q, c)}
        sink == t.size
    IN  IF missing = {} THEN t
        ELSE [size |-> t.size + 1,
              edges |-> t.edges \cup {<<m[1], m[2], sink>> : m \in missing}
                                \cup {<<sink, c, sink>> : c \in Sigma}]

\* ConsistencyCheck::consistent_automaton
consistent_automaton(acc_type, t, s, pos_sets, neg_sets) ==
    LET P == pos_sets \cup successful_runs(t, s.pos)
        N == neg_sets \cup successful_runs(t, s.neg)
        full == complete_with_colors(t)
    IN  [kind |-> "consistent", acc_type |-> acc_type, ts |-> full,
         colour |-> Colouring(acc_type, t, P, N).colour
                        \cup {<<e, 1>> : e \in full.edges \ t.edges}]

\* ConsistencyCheck::default_automaton, a function of the sample it is given
default_automaton(acc_type, s) ==
    [kind |-> "default", acc_type |-> acc_type, sample |-> s]

ColourOf(aut, e) == (CHOOSE p \in aut.colour : p[1] = e)[2]

SetMin(S) == CHOOSE m \in S : \A x \in S : m <= x

\* acceptance of an omega word by a finished automaton: the least colour
\* seen infinitely often is even
accepts(aut, w) ==
    LET r == omega_run(aut.ts, w)
    IN  /\ r.ok
        /\ SetMin({ColourOf(aut, e) : e \in r.recurrent}) % 2 = 0

\* ------------------------------------------------------------ OmegaSample
\* the filter inverted: the words that still escape are the ones removed
remove_escaping(s, t) ==
    [pos |-> {w \in s.pos : omega_run(t, w).ok},
     neg |-> {w \in s.neg : omega_run(t, w).ok}]

\* the second loop, over the negative words, left out
remove_non_escaping_positive(s, t) ==
    [pos |-> {w \in s.pos : ~omega_run(t, w).ok}, neg |-> s.neg]

remove_non_escaping(s, t) ==
    [pos |-> {w \in s.pos : ~omega_run(t, w).ok},
     neg |-> {w \in s.neg : ~omega_run(t, w).ok}]

\* ----------------------------------------------------------------- sprout
VARIABLES
    sample,         \* the sample passed by the caller
    acc_type,       \* the acceptance condition passed by the caller
    ts,             \* the transition system under construction
    thresh,         \* the threshold
    pos_sets,       \* infinity sets of the positive words seen so far
    neg_sets,       \* infinity sets of the negative words seen so far
    mut_sample,     \* the working copy of the sample
    escape_prefix,  \* the escape prefix of the current iteration
    source,         \* the state reached by u
    a,              \* the last symbol of the escape prefix
    candidates,     \* ts.state_indices_vec(), fixed when the for loop starts
    qi,             \* position of the for loop in candidates
    before_trial,   \* the transition system when the current trial began
    result,         \* what sprout returned
    elapsed,        \* the budget of ten minutes has run out since time_start
    pc,             \* position in sprout
    sort_input,     \* argument of a call of length_lexicographical_sort
    sort_output     \* its return value

sprout_vars ==
    <<sample, acc_type, ts, thresh, pos_sets, neg_sets, mut_sample,
      escape_prefix, source, a, candidates, qi, before_trial, result, elapsed>>

sort_vars == <<sort_input, sort_output>>

vars == <<sprout_vars, pc, sort_vars>>

NoResult == [tag |-> "None"]

\* the cycle length not squared
ThresholdLinear(s) ==
    SetMax({Len(w.spoke) : w \in s.pos \cup s.neg})
        + SetMax({Len(w.cycle) : w \in s.pos \cup s.neg}) + 1

\* lines 39-43
Threshold(s) ==
    LET lb == SetMax({Len(w.spoke) : w \in words(s)})
        le == SetMax({Len(w.cycle) : w \in words(s)})
    IN  lb + le * le + 1

state_indices_vec(t) == [k \in 1..t.size |-> k - 1]

SproutInit ==
    /\ ts = new_with_initial_color
    /\ thresh = 0
    /\ pos_sets = {}
    /\ neg_sets = {}
    /\ escape_prefix = <<>>
    /\ source = 0
    /\ a = 0
    /\ candidates = <<>>
    /\ qi = 0
    /\ before_trial = new_with_initial_color
    /\ result = NoResult
    /\ elapsed = FALSE

Init ==
    /\ \E c \in (BoundedSamples \X AccTypes) \cup TestCases :
           /\ sample = c[1]
           /\ acc_type = c[2]
           /\ mut_sample = c[1]
    /\ SproutInit
    /\ pc = "entry"
    /\ sort_input = <<>>
    /\ sort_output = <<>>

\* lines 33-49: the graph with its initial state, the threshold, the empty
\* infinity sets and the working copy of the sample
Entry ==
    /\ pc = "entry"
    /\ ts' = new_with_initial_color
    /\ thresh' = Threshold(sample)
    /\ pos_sets' = {}
    /\ neg_sets' = {}
    /\ mut_sample' = sample
    /\ pc' = "while"
    /\ UNCHANGED <<sample, acc_type, escape_prefix, source, a, candidates, qi,
                   before_trial, result, elapsed, sort_vars>>

\* lines 50-53: the sorted escape prefixes of the remaining positive words,
\* enumerated in the given order
SortedEscapePrefixes(t, order) ==
    length_lexicographical_sort(escape_prefixes(t, order))

\* the last symbol not cut off
PrefixUWhole(ep) == ep

\* line 62
PrefixU(ep) == SubSeq(ep, 1, Len(ep) - 1)

\* the infinity sets of the commits not handed on
FinishWithoutSets ==
    /\ pc = "while"
    /\ \E order \in Orders(mut_sample.pos) :
           SortedEscapePrefixes(ts, order) = <<>>
    /\ result' = [tag |-> "Ok",
                  automaton |-> consistent_automaton(acc_type, ts, mut_sample, {}, {})]
    /\ pc' = "Ok"
    /\ UNCHANGED <<sample, acc_type, ts, thresh, pos_sets, neg_sets, mut_sample,
                   escape_prefix, source, a, candidates, qi, before_trial, elapsed,
                   sort_vars>>

\* line 99: no positive word escapes
Finish ==
    /\ pc = "while"
    /\ \E order \in Orders(mut_sample.pos) :
           SortedEscapePrefixes(ts, order) = <<>>
    /\ result' = [tag |-> "Ok",
                  automaton |-> consistent_automaton(acc_type, ts, mut_sample,
                                                     pos_sets, neg_sets)]
    /\ pc' = "Ok"
    /\ UNCHANGED <<sample, acc_type, ts, thresh, pos_sets, neg_sets, mut_sample,
                   escape_prefix, source, a, candidates, qi, before_trial, elapsed,
                   sort_vars>>

\* lines 55-61: the budget of ten minutes has elapsed
TimedOut ==
    /\ pc = "while"
    /\ \E order \in Orders(mut_sample.pos) : SortedEscapePrefixes(ts, order) # <<>>
    /\ elapsed
    /\ result' = [tag |-> "Timeout", ts |-> ts]
    /\ pc' = "Timeout"
    /\ UNCHANGED <<sample, acc_type, ts, thresh, pos_sets, neg_sets, mut_sample,
                   escape_prefix, source, a, candidates, qi, before_trial, elapsed,
                   sort_vars>>

\* line 33 and line 55: the clock passes the budget while sprout is running
BudgetElapses ==
    /\ pc \in {"while", "for", "consult"}
    /\ ~elapsed
    /\ elapsed' = TRUE
    /\ UNCHANGED <<sample, acc_type, ts, thresh, pos_sets, neg_sets, mut_sample,
                   escape_prefix, source, a, candidates, qi, before_trial, result,
                   pc, sort_vars>>

\* the threshold test ahead of the poll of the clock
ThresholdExceededFirst ==
    /\ pc = "while"
    /\ \E order \in Orders(mut_sample.pos) :
           LET sorted == SortedEscapePrefixes(ts, order)
           IN  /\ sorted # <<>>
               /\ Len(PrefixU(Head(sorted))) - 1 > thresh
               /\ escape_prefix' = Head(sorted)
               /\ a' = Last(Head(sorted))
    /\ result' = [tag |-> "Threshold", thresh |-> thresh,
                  default |-> default_automaton(acc_type, sample), ts |-> ts]
    /\ pc' = "Threshold"
    /\ UNCHANGED <<sample, acc_type, ts, thresh, pos_sets, neg_sets, mut_sample,
                   source, candidates, qi, before_trial, elapsed, sort_vars>>

\* the comparison without the "- 1"
ThresholdExceededEarly ==
    /\ pc = "while"
    /\ ~elapsed
    /\ \E order \in Orders(mut_sample.pos) :
           LET sorted == length_lexicographical_sort(escape_prefixes(ts, order))
           IN  /\ sorted # <<>>
               /\ Len(Head(sorted)) - 1 > thresh
               /\ escape_prefix' = Head(sorted)
               /\ a' = Head(sorted)[Len(Head(sorted))]
    /\ result' = [tag |-> "Threshold", thresh |-> thresh,
                  default |-> default_automaton(acc_type, sample), ts |-> ts]
    /\ pc' = "Threshold"
    /\ UNCHANGED <<sample, acc_type, ts, thresh, pos_sets, neg_sets, mut_sample,
                   source, candidates, qi, before_trial, elapsed, sort_vars>>

\* lines 62-72: the escape prefix is longer than the threshold allows
ThresholdExceeded ==
    /\ pc = "while"
    /\ ~elapsed
    /\ \E order \in Orders(mut_sample.pos) :
           LET sorted == SortedEscapePrefixes(ts, order)
           IN  /\ sorted # <<>>
               /\ Len(PrefixU(Head(sorted))) - 1 > thresh
               /\ escape_prefix' = Head(sorted)
               /\ a' = Last(Head(sorted))
    /\ result' = [tag |-> "Threshold", thresh |-> thresh,
                  default |-> default_automaton(acc_type, sample), ts |-> ts]
    /\ pc' = "Threshold"
    /\ UNCHANGED <<sample, acc_type, ts, thresh, pos_sets, neg_sets, mut_sample,
                   source, candidates, qi, before_trial, elapsed, sort_vars>>

\* a for loop over no state at all
SelectWithoutCandidates ==
    /\ pc = "while"
    /\ ~elapsed
    /\ \E order \in Orders(mut_sample.pos) :
           LET sorted == SortedEscapePrefixes(ts, order)
           IN  /\ sorted # <<>>
               /\ ~(Len(PrefixU(Head(sorted))) - 1 > thresh)
               /\ escape_prefix' = Head(sorted)
               /\ a' = Last(Head(sorted))
               /\ source' = finite_run(ts, PrefixU(Head(sorted))).reached
               /\ pc' = IF finite_run(ts, PrefixU(Head(sorted))).ok
                        THEN "for" ELSE "panic"
    /\ candidates' = <<>>
    /\ qi' = 1
    /\ UNCHANGED <<sample, acc_type, ts, thresh, pos_sets, neg_sets, mut_sample,
                   before_trial, result, elapsed, sort_vars>>

\* the last of the sorted escape prefixes taken instead of the first
SelectLongest ==
    /\ pc = "while"
    /\ ~elapsed
    /\ \E order \in Orders(mut_sample.pos) :
           LET sorted == SortedEscapePrefixes(ts, order)
           IN  /\ sorted # <<>>
               /\ ~(Len(PrefixU(sorted[Len(sorted)])) - 1 > thresh)
               /\ escape_prefix' = sorted[Len(sorted)]
               /\ a' = Last(sorted[Len(sorted)])
               /\ source' = finite_run(ts, PrefixU(sorted[Len(sorted)])).reached
               /\ pc' = IF finite_run(ts, PrefixU(sorted[Len(sorted)])).ok
                        THEN "for" ELSE "panic"
    /\ candidates' = state_indices_vec(ts)
    /\ qi' = 1
    /\ UNCHANGED <<sample, acc_type, ts, thresh, pos_sets, neg_sets, mut_sample,
                   before_trial, result, elapsed, sort_vars>>

\* the states tried from the youngest to the oldest
SelectDescending ==
    /\ pc = "while"
    /\ ~elapsed
    /\ \E order \in Orders(mut_sample.pos) :
           LET sorted == SortedEscapePrefixes(ts, order)
           IN  /\ sorted # <<>>
               /\ ~(Len(PrefixU(Head(sorted))) - 1 > thresh)
               /\ escape_prefix' = Head(sorted)
               /\ a' = Last(Head(sorted))
               /\ source' = finite_run(ts, PrefixU(Head(sorted))).reached
               /\ pc' = IF finite_run(ts, PrefixU(Head(sorted))).ok
                        THEN "for" ELSE "panic"
    /\ candidates' = [k \in 1..ts.size |-> ts.size - k]
    /\ qi' = 1
    /\ UNCHANGED <<sample, acc_type, ts, thresh, pos_sets, neg_sets, mut_sample,
                   before_trial, result, elapsed, sort_vars>>

\* lines 62-75: u, a and source of the iteration; the for loop begins
Select ==
    /\ pc = "while"
    /\ ~elapsed
    /\ \E order \in Orders(mut_sample.pos) :
           LET sorted == SortedEscapePrefixes(ts, order)
           IN  /\ sorted # <<>>
               /\ ~(Len(PrefixU(Head(sorted))) - 1 > thresh)
               /\ escape_prefix' = Head(sorted)
               /\ a' = Last(Head(sorted))
               /\ source' = finite_run(ts, PrefixU(Head(sorted))).reached
               /\ pc' = IF finite_run(ts, PrefixU(Head(sorted))).ok
                        THEN "for" ELSE "panic"
    /\ candidates' = state_indices_vec(ts)
    /\ qi' = 1
    /\ UNCHANGED <<sample, acc_type, ts, thresh, pos_sets, neg_sets, mut_sample,
                   before_trial, result, elapsed, sort_vars>>

\* the trial edge added at the initial state instead of the state u reaches
AddTrialEdgeAtInitial ==
    /\ pc = "for"
    /\ qi <= Len(candidates)
    /\ before_trial' = ts
    /\ ts' = add_edge(ts, <<0, a, candidates[qi]>>)
    /\ pc' = "consult"
    /\ UNCHANGED <<sample, acc_type, thresh, pos_sets, neg_sets, mut_sample,
                   escape_prefix, source, a, candidates, qi, result, elapsed,
                   sort_vars>>

\* line 77: the trial edge to the next candidate
AddTrialEdge ==
    /\ pc = "for"
    /\ qi <= Len(candidates)
    /\ before_trial' = ts
    /\ ts' = add_edge(ts, <<source, a, candidates[qi]>>)
    /\ pc' = "consult"
    /\ UNCHANGED <<sample, acc_type, thresh, pos_sets, neg_sets, mut_sample,
                   escape_prefix, source, a, candidates, qi, result, elapsed,
                   sort_vars>>

\* a commit whatever the verdict of the oracle
CommitUnchecked ==
    /\ pc = "consult"
    /\ LET c == consistent(acc_type, ts, mut_sample, pos_sets, neg_sets)
       IN  /\ pos_sets' = c.pos_sets_new
           /\ neg_sets' = c.neg_sets_new
    /\ mut_sample' = remove_non_escaping(mut_sample, ts)
    /\ pc' = "while"
    /\ UNCHANGED <<sample, acc_type, ts, thresh, escape_prefix, source, a,
                   candidates, qi, before_trial, result, elapsed, sort_vars>>

\* a commit that undoes the trial edge as well
CommitDroppingEdge ==
    /\ pc = "consult"
    /\ LET c == consistent(acc_type, ts, mut_sample, pos_sets, neg_sets)
       IN  /\ c.is_consistent
           /\ pos_sets' = c.pos_sets_new
           /\ neg_sets' = c.neg_sets_new
    /\ ts' = remove_edges_from_matching(ts, source, a)
    /\ mut_sample' = remove_non_escaping(mut_sample, ts')
    /\ pc' = "while"
    /\ UNCHANGED <<sample, acc_type, thresh, escape_prefix, source, a,
                   candidates, qi, before_trial, result, elapsed, sort_vars>>

\* lines 79-90: the oracle accepts the trial edge
Commit ==
    /\ pc = "consult"
    /\ LET c == consistent(acc_type, ts, mut_sample, pos_sets, neg_sets)
       IN  /\ c.is_consistent
           /\ pos_sets' = c.pos_sets_new
           /\ neg_sets' = c.neg_sets_new
    /\ mut_sample' = remove_non_escaping(mut_sample, ts)
    /\ pc' = "while"
    /\ UNCHANGED <<sample, acc_type, ts, thresh, escape_prefix, source, a,
                   candidates, qi, before_trial, result, elapsed, sort_vars>>

\* a rollback that leaves the trial edge in place
RollbackKeepingEdge ==
    /\ pc = "consult"
    /\ ~consistent(acc_type, ts, mut_sample, pos_sets, neg_sets).is_consistent
    /\ qi' = qi + 1
    /\ pc' = "for"
    /\ UNCHANGED <<sample, acc_type, ts, thresh, pos_sets, neg_sets, mut_sample,
                   escape_prefix, source, a, candidates, before_trial, result,
                   elapsed, sort_vars>>

\* a rollback that removes every edge leaving source, whatever its symbol
RollbackAllFromSource ==
    /\ pc = "consult"
    /\ ~consistent(acc_type, ts, mut_sample, pos_sets, neg_sets).is_consistent
    /\ ts' = [ts EXCEPT !.edges = {e \in ts.edges : e[1] # source}]
    /\ qi' = qi + 1
    /\ pc' = "for"
    /\ UNCHANGED <<sample, acc_type, thresh, pos_sets, neg_sets, mut_sample,
                   escape_prefix, source, a, candidates, before_trial, result,
                   elapsed, sort_vars>>

\* a rollback that keeps the sets the rejecting call returned
RollbackKeepingSets ==
    /\ pc = "consult"
    /\ LET c == consistent(acc_type, ts, mut_sample, pos_sets, neg_sets)
       IN  /\ ~c.is_consistent
           /\ pos_sets' = c.pos_sets_new
           /\ neg_sets' = c.neg_sets_new
    /\ ts' = remove_edges_from_matching(ts, source, a)
    /\ qi' = qi + 1
    /\ pc' = "for"
    /\ UNCHANGED <<sample, acc_type, thresh, mut_sample,
                   escape_prefix, source, a, candidates, before_trial, result,
                   elapsed, sort_vars>>

\* lines 79-80, 91-93: the oracle rejects the trial edge
Rollback ==
    /\ pc = "consult"
    /\ ~consistent(acc_type, ts, mut_sample, pos_sets, neg_sets).is_consistent
    /\ ts' = remove_edges_from_matching(ts, source, a)
    /\ qi' = qi + 1
    /\ pc' = "for"
    /\ UNCHANGED <<sample, acc_type, thresh, pos_sets, neg_sets, mut_sample,
                   escape_prefix, source, a, candidates, before_trial, result,
                   elapsed, sort_vars>>

\* two states added where one is needed
NewStateTwice ==
    /\ pc = "for"
    /\ qi > Len(candidates)
    /\ ts' = add_edge(add_state(add_state(ts)), <<source, a, ts.size>>)
    /\ pc' = "while"
    /\ UNCHANGED <<sample, acc_type, thresh, pos_sets, neg_sets, mut_sample,
                   escape_prefix, source, a, candidates, qi, before_trial, result,
                   elapsed, sort_vars>>

\* lines 95-97: no candidate was consistent
NewState ==
    /\ pc = "for"
    /\ qi > Len(candidates)
    /\ ts' = add_edge(add_state(ts), <<source, a, ts.size>>)
    /\ pc' = "while"
    /\ UNCHANGED <<sample, acc_type, thresh, pos_sets, neg_sets, mut_sample,
                   escape_prefix, source, a, candidates, qi, before_trial, result,
                   elapsed, sort_vars>>

Next ==
    \/ Entry
    \/ BudgetElapses
    \/ Finish
    \/ TimedOut
    \/ ThresholdExceeded
    \/ Select
    \/ AddTrialEdge
    \/ Commit
    \/ Rollback
    \/ NewState

Spec == Init /\ [][Next]_vars

TypeOK ==
    /\ pc \in {"entry", "while", "for", "consult", "Ok", "Threshold", "Timeout",
               "panic", "sort", "sorted", "shrink", "shrunk"}
    /\ ts.size \in Nat
    /\ qi \in Nat

\* ------------------------------------- calls of length_lexicographical_sort
\* the argument of the unit test llex_sort: ["ca", "ac", "aaa", "b"]
LlexSortInput == <<<<3, 1>>, <<1, 3>>, <<1, 1, 1>>, <<2>>>>

SortInputs ==
    StringsUpTo(StringsUpTo(SortSigma, MaxSortLen), MaxSortWords) \cup {LlexSortInput}

SortInit ==
    /\ sample = new_omega_from_pos_neg({}, {})
    /\ acc_type = Buchi
    /\ mut_sample = sample
    /\ SproutInit
    /\ pc = "sort"
    /\ sort_input \in SortInputs
    /\ sort_output = <<>>

CallSort ==
    /\ pc = "sort"
    /\ sort_output' = length_lexicographical_sort(sort_input)
    /\ pc' = "sorted"
    /\ UNCHANGED <<sprout_vars, sort_input>>

SortNext == CallSort

SortSpec == SortInit /\ [][SortNext]_vars

\* ------------------------------------------ calls of remove_transitions
\* the transition systems with at most MaxShrinkStates states and at most
\* MaxShrinkEdges edges, deterministic or not
ShrinkGraphs ==
    UNION {{[size |-> n, edges |-> E] :
                E \in {F \in SUBSET ((0..(n - 1)) \X Sigma \X (0..(n - 1))) :
                           Cardinality(F) <= MaxShrinkEdges}} :
           n \in 1..MaxShrinkStates}

\* the arguments: a transition system, a source that is one of its states or
\* the first index behind them, and a symbol
ShrinkInit ==
    /\ sample = new_omega_from_pos_neg({}, {})
    /\ acc_type = Buchi
    /\ mut_sample = sample
    /\ ts \in ShrinkGraphs
    /\ source \in 0..ts.size
    /\ a \in Sigma
    /\ before_trial = ts
    /\ thresh = 0
    /\ pos_sets = {}
    /\ neg_sets = {}
    /\ escape_prefix = <<>>
    /\ candidates = <<>>
    /\ qi = 0
    /\ result = NoResult
    /\ elapsed = FALSE
    /\ pc = "shrink"
    /\ sort_input = <<>>
    /\ sort_output = <<>>

\* shrinkable.rs lines 49-55
CallRemoveTransitions ==
    /\ pc = "shrink"
    /\ LET r == remove_transitions(ts, source, a)
       IN  /\ ts' = r.ts
           /\ result' = [tag |-> r.ret, removed |-> r.removed]
    /\ before_trial' = ts
    /\ pc' = "shrunk"
    /\ UNCHANGED <<sample, acc_type, thresh, pos_sets, neg_sets, mut_sample,
                   escape_prefix, source, a, candidates, qi, elapsed, sort_vars>>

ShrinkNext == CallRemoveTransitions

ShrinkSpec == ShrinkInit /\ [][ShrinkNext]_vars

\* ================================================================ properties

Terminal == {"Ok", "Threshold", "Timeout"}

\* C1: when sprout returns Ok(automaton), the automaton is deterministic,
\* accepts every positive word and rejects every negative word of the sample
\* given at call time, the words removed from the working sample included.
OkConsistentWithSample ==
    pc = "Ok" =>
        /\ is_deterministic(result.automaton.ts)
        /\ \A w \in sample.pos : accepts(result.automaton, w)
        /\ \A w \in sample.neg : ~accepts(result.automaton, w)

\* an Ok result for a sample whose words were removed from the working sample
\* during the search, a negative word among them
OkAfterShrinking ==
    /\ pc = "Ok"
    /\ sample.pos # {}
    /\ sample.neg \ mut_sample.neg # {}
    /\ ts.size >= 2

\* C2: in every settled state of the working transition system (everywhere
\* but between a trial edge and the verdict on it) and in every returned
\* graph there is at most one edge per state and symbol.
DeterminismInvariant ==
    /\ pc # "consult" => is_deterministic(ts)
    /\ result.tag \in {"Threshold", "Timeout"} => is_deterministic(result.ts)
    /\ result.tag = "Ok" => is_deterministic(result.automaton.ts)

\* a settled state after a second rollback at a source that keeps an edge
SettledAfterRollbacks ==
    /\ pc = "for"
    /\ qi > 2
    /\ \E e \in ts.edges : e[1] = source

\* C3: a rollback leaves exactly the transition system that was there before
\* the trial edge was added: same states, same edges.
RollbackRestores ==
    [][(pc = "consult" /\ pc' = "for") => ts' = before_trial]_vars

\* a rolled back trial at a source that has an edge for the other symbol
RolledBackBesideOtherEdge ==
    /\ pc = "for"
    /\ qi > 1
    /\ ts = before_trial
    /\ \E e \in ts.edges : e[1] = source /\ e[2] # a

\* What is left to do for the positive words of the working sample smp that
\* still escape from t: a word whose escape prefix has n symbols counts
\* th + 3 - n, and nothing once its prefix is too long ever to be selected
\* below the threshold th.
RECURSIVE SumLeft(_, _, _)
SumLeft(S, t, th) ==
    IF S = {} THEN 0
    ELSE LET w == CHOOSE x \in S : TRUE
         IN  Max(0, th + 3 - Len(EscapePrefixOf(t, w))) + SumLeft(S \ {w}, t, th)

Remaining(t, smp, th) ==
    SumLeft({w \in smp.pos : ~omega_run(t, w).ok}, t, th)

\* the position of an execution in the well-founded lexicographic order on
\* tuples of naturals: the work remaining, the stage of the iteration, the
\* candidates left to try and the clock
RankOf(p, t, bt, smp, th, cands, q, el) ==
    LET clock == IF el THEN 0 ELSE 1
    IN  IF p = "entry" THEN <<1, 0, 0, 0, clock>>
        ELSE IF p = "while" THEN <<0, Remaining(t, smp, th), 2, 0, clock>>
        ELSE IF p = "for"
        THEN <<0, Remaining(t, smp, th), 1, 2 * (Len(cands) + 1 - q) + 1, clock>>
        ELSE IF p = "consult"
        THEN <<0, Remaining(bt, smp, th), 1, 2 * (Len(cands) + 1 - q), clock>>
        ELSE <<0, 0, 0, 0, clock>>

Rank == RankOf(pc, ts, before_trial, mut_sample, thresh, candidates, qi, elapsed)

RankDomain(r) == \A k \in DOMAIN r : r[k] \in Nat

LexLess(r, s) ==
    \E k \in 1..Len(r) :
        /\ k <= Len(s)
        /\ r[k] < s[k]
        /\ \A j \in 1..(k - 1) : r[j] = s[j]

\* C4: every execution of sprout ends in Ok, Threshold or Timeout, also when
\* the budget is never exceeded: every step of sprout takes the execution
\* down in a well-founded order, so there is no infinite execution, and the
\* only positions without a next step are the three results.
Termination ==
    /\ [](RankDomain(Rank) /\ pc # "panic")
    /\ [][LexLess(RankOf(pc', ts', before_trial', mut_sample', thresh',
                          candidates', qi', elapsed'), Rank)]_vars

\* an execution that ended without timing out after it added states
EndedAfterGrowth ==
    /\ pc \in {"Ok", "Threshold"}
    /\ ts.size >= 3

\* ---------------------------------------------- automata to compare with
Coloured(acc, n, E, colour) ==
    [kind |-> "given", acc_type |-> acc, ts |-> [size |-> n, edges |-> E],
     colour |-> colour]

\* with_transitions(..).into_dba(0) of tests::sprout_buchi_thresh; true is the
\* colour 0 and false the colour 1
BuchiThreshDba ==
    Coloured(Buchi, 6,
        {<<0, 1, 1>>, <<0, 2, 2>>, <<1, 1, 1>>, <<1, 2, 5>>, <<2, 1, 3>>, <<2, 2, 5>>,
         <<3, 1, 4>>, <<3, 2, 5>>, <<4, 2, 2>>, <<4, 1, 5>>, <<5, 1, 5>>, <<5, 2, 5>>},
        {<<<<0, 1, 1>>, 0>>, <<<<0, 2, 2>>, 0>>, <<<<1, 1, 1>>, 0>>, <<<<1, 2, 5>>, 1>>,
         <<<<2, 1, 3>>, 0>>, <<<<2, 2, 5>>, 1>>, <<<<3, 1, 4>>, 0>>, <<<<3, 2, 5>>, 1>>,
         <<<<4, 2, 2>>, 0>>, <<<<4, 1, 5>>, 1>>, <<<<5, 1, 5>>, 1>>, <<<<5, 2, 5>>, 1>>})

\* with_transitions(..).into_dpa(0) of tests::sprout_parity_thresh, completed
\* with a sink of colour 1
ParityThreshDpa ==
    LET given == {<<0, 1, 1>>, <<1, 1, 1>>, <<0, 2, 2>>, <<2, 1, 3>>, <<3, 1, 4>>,
                  <<4, 1, 5>>, <<5, 2, 2>>}
        full == complete_with_colors([size |-> 6, edges |-> given])
    IN  Coloured(Parity, full.size, full.edges,
                 {<<e, 0>> : e \in given} \cup {<<e, 1>> : e \in full.edges \ given})

TestAutomata == {BuchiThreshDba, ParityThreshDpa}

ThreshTestCases ==
    {<<SampleBuchiThresh, Buchi>>, <<SampleParityThresh, Parity>>}

\* the complete automata with n states and colours 0..k of the given type
Automata(acc, n, k) ==
    {Coloured(acc, n,
              {<<x[1], x[2], f[x]>> : x \in (0..(n - 1)) \X Sigma},
              {<<<<x[1], x[2], f[x]>>, g[x]>> : x \in (0..(n - 1)) \X Sigma}) :
         f \in [(0..(n - 1)) \X Sigma -> 0..(n - 1)],
         g \in [(0..(n - 1)) \X Sigma -> 0..k]}

\* aut accepts the positive and rejects the negative words of s
consistent_with(aut, s) ==
    /\ \A w \in s.pos : accepts(aut, w)
    /\ \A w \in s.neg : ~accepts(aut, w)

\* s is realizable by aut within the bound th on the number of states
RealizedWithin(aut, acc, s, th) ==
    /\ aut.acc_type = acc
    /\ aut.ts.size <= th
    /\ consistent_with(aut, s)

OneStateRealizable(acc, s) ==
    \E aut \in Automata(acc, 1, IF acc = Buchi THEN 1 ELSE 2) : consistent_with(aut, s)

\* C5 as stated: a sample that a deterministic automaton of the requested
\* type with at most thresh states realizes never ends in Threshold.  Here
\* the automata tried are the complete ones with two states and the ones
\* that the tests build.
ThresholdCorrectness ==
    pc = "Threshold" =>
        \A aut \in Automata(acc_type, 2, 1) \cup TestAutomata :
            ~RealizedWithin(aut, acc_type, sample, thresh)

\* C5 amended: a sample that a one-state automaton of the requested type
\* realizes never ends in Threshold.
OneStateThresholdCorrectness ==
    pc = "Threshold" => ~OneStateRealizable(acc_type, sample)

\* sprout returned Ok for a one-state realizable sample with both labels
OneStateSampleDone ==
    /\ pc = "Ok"
    /\ sample.pos # {}
    /\ sample.neg # {}
    /\ OneStateRealizable(acc_type, sample)
    /\ Cardinality(ts.edges) = AlphabetSize

TieBreakDeterminism ==
    /\ pc = "while" =>
           \A o1, o2 \in Orders(mut_sample.pos) :
               SortedEscapePrefixes(ts, o1) = SortedEscapePrefixes(ts, o2)
    /\ pc = "for" =>
           \A o \in Orders(mut_sample.pos) :
               /\ SortedEscapePrefixes(ts, o) # <<>>
               /\ Head(SortedEscapePrefixes(ts, o)) = escape_prefix

\* an iteration whose escape prefix is not the first one of some enumeration
TieBroken ==
    /\ pc = "for"
    /\ \E o \in Orders(mut_sample.pos) :
           /\ escape_prefixes(ts, o) # <<>>
           /\ Head(escape_prefixes(ts, o)) # escape_prefix

\* number of occurrences of x in the list ws
Count(ws, x) == Cardinality({k \in DOMAIN ws : ws[k] = x})

\* x is not behind y: shorter, or as long and lexicographically not greater
LengthLexLeq(x, y) ==
    \/ Len(x) < Len(y)
    \/ /\ Len(x) = Len(y)
       /\ \/ x = y
          \/ \E k \in 1..Len(x) : x[k] < y[k] /\ \A j \in 1..(k - 1) : x[j] = y[j]

\* C8: length_lexicographical_sort returns a permutation of its argument,
\* duplicates kept, ordered by length and then lexicographically; the list
\* ["ca", "ac", "aaa", "b"] becomes ["b", "ac", "ca", "aaa"].
SortedPermutation ==
    pc = "sorted" =>
        /\ Len(sort_output) = Len(sort_input)
        /\ \A x \in Range(sort_input) \cup Range(sort_output) :
               Count(sort_output, x) = Count(sort_input, x)
        /\ \A i, j \in DOMAIN sort_output :
               i < j => LengthLexLeq(sort_output[i], sort_output[j])
        /\ sort_input = LlexSortInput =>
               sort_output = <<<<2>>, <<1, 3>>, <<3, 1>>, <<1, 1, 1>>>>

\* the list of the unit test has been sorted
LlexSortDone ==
    /\ pc = "sorted"
    /\ sort_input = LlexSortInput
    /\ sort_output # sort_input

\* m is the greatest element of S, or 0 for an empty S
IsMaxOf(m, S) == (S = {} /\ m = 0) \/ (m \in S /\ \A x \in S : x <= m)

\* C9: after entry the threshold is L + C * C + 1 for the greatest spoke
\* length L and the greatest cycle length C of the original sample, and no
\* step changes it, whatever happens to the working sample.
ThresholdFixed ==
    /\ [](pc # "entry" =>
            \E L \in {0} \cup {Len(w.spoke) : w \in sample.pos \cup sample.neg} :
            \E C \in {0} \cup {Len(w.cycle) : w \in sample.pos \cup sample.neg} :
                /\ IsMaxOf(L, {Len(w.spoke) : w \in sample.pos \cup sample.neg})
                /\ IsMaxOf(C, {Len(w.cycle) : w \in sample.pos \cup sample.neg})
                /\ thresh = L + C * C + 1)
    /\ [][pc # "entry" => thresh' = thresh]_vars

\* the working sample lost the word with the longest cycle or spoke
ShrunkBelowThreshold ==
    /\ pc = "while"
    /\ mut_sample # sample
    /\ Threshold(mut_sample) < thresh

\* the states reached from S by at most k symbols
RECURSIVE ReachedWithin(_, _, _)
ReachedWithin(t, S, k) ==
    LET T == S \cup {e[3] : e \in {x \in t.edges : x[1] \in S}}
    IN  IF k = 0 \/ T = S THEN S ELSE ReachedWithin(t, T, k - 1)

\* C10: sprout returns Threshold exactly for a selected escape prefix u.a
\* with len(u) - 1 > thresh; the error carries thresh, the default automaton
\* of the original sample and the current graph; every edge starts in a
\* state that a word of at most thresh + 1 symbols reaches.
ThresholdExactly ==
    /\ pc = "Threshold" =>
           /\ Len(escape_prefix) - 2 > thresh
           /\ \A o \in Orders(mut_sample.pos) :
                  Head(SortedEscapePrefixes(ts, o)) = escape_prefix
           /\ result = [tag |-> "Threshold", thresh |-> thresh,
                        default |-> default_automaton(acc_type, sample), ts |-> ts]
    /\ pc \in {"for", "consult"} => Len(escape_prefix) - 2 <= thresh
    /\ \A e \in ts.edges : e[1] \in ReachedWithin(ts, {0}, thresh + 1)

\* Threshold returned after the working sample had shrunk
ThresholdAfterShrinking ==
    /\ pc = "Threshold"
    /\ result.tag = "Threshold"
    /\ mut_sample # sample

\* the positive words of the working sample that escape from ts
Escaping == {w \in mut_sample.pos : ~omega_run(ts, w).ok}

\* the escape prefix of the given length is the one an iteration would select
ShortestEscapeHas(n) ==
    /\ Escaping # {}
    /\ \E w \in Escaping : Len(EscapePrefixOf(ts, w)) = n
    /\ \A w \in Escaping : Len(EscapePrefixOf(ts, w)) >= n

\* C11: Timeout is returned only from the top of an iteration, with the budget
\* elapsed and an escape prefix found, and carries the current graph and no
\* automaton; with the budget elapsed the top of an iteration returns Timeout
\* whenever an escape prefix is left, whatever the threshold, and Ok when none
\* is left; a trial in progress is never ended by the clock.
TimeoutPolledAtTop ==
    /\ [][(pc' = "Timeout" /\ pc # "Timeout") =>
              /\ pc = "while"
              /\ elapsed
              /\ Escaping # {}
              /\ ts' = ts
              /\ result' = [tag |-> "Timeout", ts |-> ts]]_vars
    /\ [][(pc = "while" /\ elapsed /\ pc' # pc) =>
              pc' = IF Escaping = {} THEN "Ok" ELSE "Timeout"]_vars
    /\ [][(pc = "for" \/ pc = "consult") => ~(pc' \in Terminal)]_vars
    /\ [](result.tag = "Timeout" =>
              /\ DOMAIN result = {"tag", "ts"}
              /\ is_deterministic(result.ts))

\* Timeout returned where the threshold was exceeded as well
TimeoutBeforeThreshold ==
    /\ pc = "Timeout"
    /\ result.tag = "Timeout"
    /\ \E n \in (thresh + 3)..(thresh + 4) : ShortestEscapeHas(n)

\* C12: consistent_automaton is called at most once, exactly in the step
\* that leaves the loop because no positive word escapes, with the settled
\* graph, the working sample and the infinity sets of the last commit; the
\* Threshold and Timeout results hold no automaton from it.
ConsistentAutomatonOnce ==
    /\ [][(pc' = "Ok" /\ pc # "Ok") =>
              /\ pc = "while"
              /\ Escaping = {}
              /\ is_deterministic(ts)
              /\ result' = [tag |-> "Ok",
                            automaton |-> consistent_automaton(acc_type, ts,
                                              mut_sample, pos_sets, neg_sets)]]_vars
    /\ [][(pc = "while" /\ Escaping = {} /\ pc' # pc) => pc' = "Ok"]_vars
    /\ [][result # NoResult => result' = result]_vars
    /\ [][(pos_sets' # pos_sets \/ neg_sets' # neg_sets) =>
              /\ pc = "consult"
              /\ pc' = "while"]_vars
    /\ [](/\ (result.tag = "Ok") = (pc = "Ok")
          /\ result.tag \in {"Threshold", "Timeout"} =>
                 "automaton" \notin DOMAIN result)

\* Ok returned after commits that filled both kinds of infinity sets and
\* removed their words from the working sample
OkWithCommittedSets ==
    /\ pc = "Ok"
    /\ pos_sets # {}
    /\ neg_sets # {}
    /\ mut_sample.pos = {}
    /\ sample.pos # {}

\* C13: the transition system starts with the initial state alone and no
\* edge; afterwards no step lowers the number of states, a step adds at most
\* one state, and it adds one only when the for loop has gone through every
\* existing state; the edges stay between existing states.
MonotonicGrowth ==
    /\ [][pc = "entry" => ts' = [size |-> 1, edges |-> {}]]_vars
    /\ [][pc # "entry" =>
              /\ ts'.size >= ts.size
              /\ ts'.size <= ts.size + 1
              /\ ts'.size = ts.size + 1 =>
                     /\ pc = "for"
                     /\ pc' = "while"
                     /\ Len(candidates) = ts.size
                     /\ qi = Len(candidates) + 1]_vars
    /\ [](/\ ts.size >= 1
          /\ \A e \in ts.edges : e[1] \in state_indices(ts) /\ e[3] \in state_indices(ts))

\* a trial in a graph that has grown twice
TrialInGrownGraph ==
    /\ pc = "consult"
    /\ ts.size >= 3
    /\ qi >= 2

\* C14 as stated: remove_transitions returns None if no transition leaving
\* source matches the symbol, and otherwise the set of exactly the removed
\* transitions.
RemoveTransitionsNoneIfAbsent ==
    pc = "shrunk" =>
        LET matching == {e \in before_trial.edges : e[1] = source /\ e[2] = a}
        IN  IF matching = {}
            THEN result.tag = "None" /\ ts = before_trial
            ELSE /\ result.tag = "Some"
                 /\ result.removed = matching
                 /\ ts = [before_trial EXCEPT !.edges = before_trial.edges \ matching]

\* the run of t on w never gets stuck: it is defined along the spoke and as
\* many rounds of the cycle as t has states
RunsForever(t, w) ==
    finite_run(t, Expand(w, Len(w.spoke) + Len(w.cycle) * t.size)).ok

\* C15: a commit removes from the working sample exactly the words, positive
\* and negative, on which the graph runs forever; the other words keep their
\* label, no word is added, no word has both labels, and the graph is not
\* touched.
RemoveNonEscapingExact ==
    /\ [][(pc = "consult" /\ pc' = "while") =>
              /\ mut_sample'.pos = {w \in mut_sample.pos : ~RunsForever(ts, w)}
              /\ mut_sample'.neg = {w \in mut_sample.neg : ~RunsForever(ts, w)}
              /\ ts' = ts]_vars
    /\ [](/\ mut_sample.pos \cap mut_sample.neg = {}
          /\ mut_sample.pos \subseteq sample.pos
          /\ mut_sample.neg \subseteq sample.neg)

\* words of both labels were removed and a word that still escapes stays
BothLabelsRemoved ==
    /\ pc = "while"
    /\ sample.pos \ mut_sample.pos # {}
    /\ sample.neg \ mut_sample.neg # {}
    /\ mut_sample.pos \cup mut_sample.neg # {}

\* the shortest prefix of w on which t has no run
RECURSIVE UndefinedPrefixFrom(_, _, _)
UndefinedPrefixFrom(t, w, k) ==
    IF ~finite_run(t, Expand(w, k)).ok THEN Expand(w, k)
    ELSE UndefinedPrefixFrom(t, w, k + 1)

\* the prefixes among which an iteration selects
PositiveEscapePrefixes ==
    {UndefinedPrefixFrom(ts, w, 1) : w \in {x \in mut_sample.pos : ~RunsForever(ts, x)}}

\* C16: the escape prefix an iteration resolves, or returns Threshold for, is
\* the least one in length-lexicographic order among the escape prefixes of
\* the positive words of the working sample; negative words contribute none,
\* and the loop ends as soon as no positive word escapes.
SelectsLeastPositivePrefix ==
    /\ [](pc \in {"for", "Threshold"} =>
              /\ escape_prefix \in PositiveEscapePrefixes
              /\ \A x \in PositiveEscapePrefixes : LengthLexLeq(escape_prefix, x))
    /\ [][(pc = "while" /\ pc' # "while") =>
              (pc' = "Ok") = (PositiveEscapePrefixes = {})]_vars

\* the loop ended while a negative word still escaped
EndedWithEscapingNegative ==
    /\ pc = "Ok"
    /\ ts.edges # {}
    /\ \E w \in mut_sample.neg : ~RunsForever(ts, w)

\* the verdict on the trial edge from source on a to the state q
Verdict(t, q) ==
    consistent(acc_type, add_edge(t, <<source, a, q>>), mut_sample,
               pos_sets, neg_sets).is_consistent

\* C17: the for loop goes through the states that exist when the iteration
\* starts in ascending order; a commit keeps the edge to the least state the
\* oracle accepts; a state is created, with the single edge to it and without
\* a word to the oracle, exactly when the oracle rejected every state.
LowestConsistentTarget ==
    /\ [](pc \in {"for", "consult"} =>
              /\ candidates = [k \in 1..Len(candidates) |-> k - 1]
              /\ Len(candidates) = ts.size
              /\ qi \in 1..(Len(candidates) + 1))
    /\ [][pc = "for" =>
              \/ pc' = "for" /\ ts' = ts
              \/ /\ qi <= Len(candidates)
                 /\ pc' = "consult"
                 /\ ts' = add_edge(ts, <<source, a, qi - 1>>)
              \/ /\ qi > Len(candidates)
                 /\ \A q \in state_indices(ts) : ~Verdict(ts, q)
                 /\ pc' = "while"
                 /\ ts' = [size |-> ts.size + 1,
                           edges |-> ts.edges \cup {<<source, a, ts.size>>}]
                 /\ UNCHANGED <<pos_sets, neg_sets, mut_sample>>]_vars
    /\ [][(pc = "consult" /\ pc' = "while") =>
              /\ ts' = add_edge(before_trial, <<source, a, qi - 1>>)
              /\ Verdict(before_trial, qi - 1)
              /\ \A q \in 0..(qi - 2) : ~Verdict(before_trial, q)]_vars

\* a commit to a state that is not the initial one, after rejected trials
CommittedBehindRejected ==
    /\ pc = "while"
    /\ qi \in 2..Len(candidates)
    /\ <<source, a, qi - 1>> \in ts.edges
    /\ ts.size = Len(candidates)

\* C18: pos_sets, neg_sets and the working sample change in commits only: a
\* rejected trial and the step to a new state leave them as they are; a
\* commit stores the sets that the accepting call of consistent returned and
\* then applies remove_non_escaping; the sample of the caller never changes.
OnlyCommitsWrite ==
    /\ [][(pos_sets' # pos_sets \/ neg_sets' # neg_sets \/ mut_sample' # mut_sample) =>
              /\ pc = "consult"
              /\ pc' = "while"]_vars
    /\ [][(pc = "consult" /\ pc' = "while") =>
              LET c == consistent(acc_type, ts, mut_sample, pos_sets, neg_sets)
              IN  /\ c.is_consistent
                  /\ pos_sets' = c.pos_sets_new
                  /\ neg_sets' = c.neg_sets_new
                  /\ mut_sample' = remove_non_escaping(mut_sample, ts)]_vars
    /\ [][sample' = sample /\ acc_type' = acc_type]_vars

\* a trial was rejected whose call of consistent had returned further sets
RejectedWithFurtherSets ==
    /\ pc = "for"
    /\ qi > 1
    /\ LET c == consistent(acc_type, add_edge(ts, <<source, a, candidates[qi - 1]>>),
                           mut_sample, pos_sets, neg_sets)
       IN  /\ ~c.is_consistent
           /\ <<c.pos_sets_new, c.neg_sets_new>> # <<pos_sets, neg_sets>>

\* C19: sprout never panics: the selected escape prefix is not empty, u has
\* a run from the initial state, source is the state it reaches, and that
\* state has no edge for the last symbol a.
AssertionsHold ==
    /\ pc # "panic"
    /\ pc = "for" =>
           /\ Len(escape_prefix) >= 1
           /\ a = escape_prefix[Len(escape_prefix)]
           /\ finite_run(ts, PrefixU(escape_prefix)).ok
           /\ finite_run(ts, PrefixU(escape_prefix)).len = Len(escape_prefix) - 1
           /\ source = finite_run(ts, PrefixU(escape_prefix)).reached
           /\ source \in state_indices(ts)
           /\ ~\E e \in ts.edges : e[1] = source /\ e[2] = a

\* an iteration whose u leads away from the initial state to a state that
\* has an edge for the other symbol
SourceBehindInitial ==
    /\ pc = "for"
    /\ Len(escape_prefix) >= 3
    /\ source # 0
    /\ \E e \in ts.edges : e[1] = source /\ e[2] # a

\* C20: an edge is added only where source has no edge for a; a step adds
\* one edge at most; also during a trial no state has two edges for a symbol,
\* so the oracle sees deterministic graphs only; a rollback removes exactly
\* one edge, the trial edge.
NoDuplicateEdges ==
    /\ [](/\ is_deterministic(ts)
          /\ \A e1, e2 \in ts.edges : (e1[1] = e2[1] /\ e1[2] = e2[2]) => e1 = e2)
    /\ [][(pc # "entry" /\ ts'.edges \ ts.edges # {}) =>
              /\ ~\E e \in ts.edges : e[1] = source /\ e[2] = a
              /\ Cardinality(ts'.edges \ ts.edges) = 1
              /\ \A e \in ts'.edges \ ts.edges : e[1] = source /\ e[2] = a
              /\ ts.edges \subseteq ts'.edges]_vars
    /\ [][(pc = "consult" /\ pc' = "for") =>
              /\ ts.edges \ ts'.edges = {<<source, a, candidates[qi]>>}
              /\ remove_transitions(ts, source, a).removed
                     = {<<source, a, candidates[qi]>>}
              /\ remove_transitions(ts, source, a).ret = "Some"
              /\ ts'.edges \subseteq ts.edges
              /\ ts'.size = ts.size]_vars

\* a third trial at a source in a graph that holds other edges
ThirdTrial ==
    /\ pc = "consult"
    /\ qi = 3
    /\ Cardinality(ts.edges) >= 4
    /\ <<source, a, 2>> \in ts.edges

====
